---- MODULE Spec2Model ----
(***************************************************************************)
(* A model of CovidDataEnhancedFactory (src/main.py): one run of execute,  *)
(* which fetches four sources, merges them (combine_data), adds the        *)
(* population densities (read_population_data), validates the result       *)
(* (validate_json) and publishes it (save_to_redis).                       *)
(*                                                                         *)
(* Python values are modelled as follows.                                  *)
(*   - a str is a sequence of one-character strings where the code edits   *)
(*     it (parse_num, latest_update.replace), a TLA+ string otherwise;     *)
(*   - a raw numeric field is tagged with its Python type:                 *)
(*     [t |-> "int", n |-> 7], [t |-> "str", s |-> <<"1", ",", "2">>],     *)
(*     [t |-> "none"];                                                     *)
(*   - a dict keyed by country code is a function whose DOMAIN is the set  *)
(*     of keys; a country record is a record whose DOMAIN grows when       *)
(*     read_population_data adds keys to it;                               *)
(*   - a float with two decimals is an integer number of hundredths, a     *)
(*     severity bucket (0, 0.2, ..., 1) an integer number of tenths.       *)
(***************************************************************************)
EXTENDS Integers, Sequences, FiniteSets, TLC

VARIABLES
    pc,             \* position of the run inside execute
    country,        \* environment: the country whose rows vary between the sources
    calls,          \* the methods execute has invoked so far
    covid_data,     \* self.covid_data
    prev,           \* covid_data as it was before the latest merge step
    csse,           \* combine_data's local csse
    wom_data,       \* combine_data's local wom_data
    man_data,       \* combine_data's local man_data
    arcgis_result,  \* how read_arcgis ended
    valid,          \* how validate_json ended
    redis_status,   \* execute's local redis_status (its return value)
    redis,          \* the store: what each key covid_data_<language> holds
    files,          \* the languages whose <language>.json was written
    save_path,      \* how the calls made by save_to_redis ended
    raw,            \* the arguments of a single add_country_data call
    built           \* what that call produced

vars == <<pc, country, calls, covid_data, prev, csse, wom_data, man_data,
          arcgis_result, valid, redis_status, redis, files, save_path, raw, built>>

----------------------------------------------------------------------------
(* Bounds of the model *)

\* the largest count a source reports for the varying country
MaxCount == 1
\* the longest raw string handed to parse_num
MaxLen == 3

(* Program constants *)

\* validate_json: more than 100 records are required
MinRecords == 100

----------------------------------------------------------------------------
(* Reference data: COUNTRIES, CODES (read_country_list) and TITLES *)

FocusCodes == {"RUS", "TKM", "ITA"}

\* the countries whose rows are the same in every source that lists them
NumStable == MinRecords
StableCode(i) == "F" \o ToString(i)
StableName(i) == "N" \o ToString(i)
StableCodes(k) == {StableCode(i) : i \in 1..k}

\* COUNTRIES: code -> {'en': ..., 'ru': ...}, filled by read_country_list
COUNTRIES ==
    [code \in FocusCodes |->
        CASE code = "RUS" -> [en |-> "Russia", ru |-> "Rossiya"]
          [] code = "TKM" -> [en |-> "Turkmenistan", ru |-> "Turkmenistan"]
          [] code = "ITA" -> [en |-> "Italy", ru |-> "Italiya"]]
    @@ [code \in StableCodes(NumStable) |->
            LET i == CHOOSE i \in 1..NumStable : StableCode(i) = code
            IN  [en |-> StableName(i), ru |-> StableName(i)]]

\* CODES: English title -> code, filled by read_country_list with the keys of COUNTRIES
CODES ==
    [n \in {"Russia", "Turkmenistan", "Italy"} |->
        CASE n = "Russia" -> "RUS"
          [] n = "Turkmenistan" -> "TKM"
          [] n = "Italy" -> "ITA"]
    @@ [n \in {StableName(i) : i \in 1..NumStable} |->
            StableCode(CHOOSE i \in 1..NumStable : StableName(i) = n)]

\* TITLES: the alias table (the entries that concern the modelled countries)
TITLES ==
    [n \in {"Russian Federation", "Diamond Princess", ""} |->
        CASE n = "Russian Federation" -> "Russia"
          [] n = "Diamond Princess" -> "Diamond Princess (Cruise Ship)"
          [] n = "" -> ""]

\* the spellings under which a source may list a country of FocusCodes
RawNames(code) ==
    CASE code = "RUS" -> {"Russia", "Russian Federation"}
      [] code = "TKM" -> {"Turkmenistan"}
      [] code = "ITA" -> {"Italy"}

\* a label no entry of CODES matches
UnknownNames == {"Diamond Princess", ""}

----------------------------------------------------------------------------
(* parse_num *)

IntVal(n) == [t |-> "int", n |-> n]
StrVal(s) == [t |-> "str", s |-> s]
NoneVal == [t |-> "none"]

Whitespace == {" "}
Digits == {"0", "1", "2", "3", "4", "5", "6", "7", "8", "9"}

DigitValue(ch) ==
    CASE ch = "0" -> 0 [] ch = "1" -> 1 [] ch = "2" -> 2 [] ch = "3" -> 3
      [] ch = "4" -> 4 [] ch = "5" -> 5 [] ch = "6" -> 6 [] ch = "7" -> 7
      [] ch = "8" -> 8 [] ch = "9" -> 9

RECURSIVE LStrip(_)
LStrip(s) == IF s # <<>> /\ Head(s) \in Whitespace THEN LStrip(Tail(s)) ELSE s

RECURSIVE RStrip(_)
RStrip(s) ==
    IF s # <<>> /\ s[Len(s)] \in Whitespace THEN RStrip(SubSeq(s, 1, Len(s) - 1)) ELSE s

\* str.strip()
Strip(s) == RStrip(LStrip(s))

\* str.replace(',', '')
RemoveCommas(s) == SelectSeq(s, LAMBDA ch : ch # ",")

RECURSIVE DigitsValue(_)
DigitsValue(s) ==
    IF s = <<>> THEN 0 ELSE 10 * DigitsValue(SubSeq(s, 1, Len(s) - 1)) + DigitValue(s[Len(s)])

\* int(str): surrounding whitespace, an optional sign, then one or more digits
IntBody(s) == LET u == Strip(s) IN IF u # <<>> /\ u[1] \in {"-", "+"} THEN Tail(u) ELSE u
IntParses(s) == IntBody(s) # <<>> /\ \A i \in 1..Len(IntBody(s)) : IntBody(s)[i] \in Digits
IntOf(s) ==
    LET u == Strip(s)
    IN  IF u[1] = "-" THEN 0 - DigitsValue(IntBody(s)) ELSE DigitsValue(IntBody(s))

\* parse_num raises AttributeError when text is neither an int nor a str:
\* text.strip() is called on it
ParseNumRaises(text) == text.t \notin {"int", "str"}

\* the value parse_num returns when it returns
parse_num(text) ==
    IF text.t = "int"
    THEN text.n
    ELSE LET stripped == RemoveCommas(Strip(text.s))
         IN  IF Len(stripped) > 0
             THEN IF IntParses(stripped) THEN IntOf(stripped) ELSE 0
             ELSE 0

----------------------------------------------------------------------------
(* add_country_data *)

\* the source attribution: a plain label, or one string per language
Label(text) == [kind |-> "str", text |-> text]
Localized(ru, en) == [kind |-> "dict", ru |-> ru, en |-> en]

\* country_name after the alias table
Normalized(country_name) ==
    IF country_name # "" /\ country_name \in DOMAIN TITLES
    THEN TITLES[country_name]
    ELSE country_name

\* the title is known: add_country_data goes on to build a record
Resolves(country_name) ==
    Normalized(country_name) # "" /\ Normalized(country_name) \in DOMAIN CODES

\* add_country_data raises: one of its parse_num calls does
AddCountryRaises(country_name, confirmed, deaths, recovered) ==
    /\ Resolves(country_name)
    /\ ParseNumRaises(confirmed) \/ ParseNumRaises(deaths) \/ ParseNumRaises(recovered)

\* add_country_data without the floor of 0 under active
AddCountryDataUnclamped(country_name, confirmed, deaths, recovered, latest_update, source) ==
    LET country_code == CODES[Normalized(country_name)]
        c == parse_num(confirmed)
        d == parse_num(deaths)
        r == parse_num(recovered)
    IN  [code |-> country_code,
         titles |-> IF country_code \in DOMAIN COUNTRIES THEN COUNTRIES[country_code] ELSE <<>>,
         confirmed |-> c,
         deaths |-> d,
         recovered |-> r,
         active |-> c - d - r,
         latest_update |-> latest_update,
         source |-> source]

\* the record add_country_data returns for a known title
add_country_data(country_name, confirmed, deaths, recovered, latest_update, source) ==
    LET country_code == CODES[Normalized(country_name)]
        c == parse_num(confirmed)
        d == parse_num(deaths)
        r == parse_num(recovered)
        active == c - d - r
    IN  [code |-> country_code,
         titles |-> IF country_code \in DOMAIN COUNTRIES THEN COUNTRIES[country_code] ELSE <<>>,
         confirmed |-> c,
         deaths |-> d,
         recovered |-> r,
         active |-> IF active > 0 THEN active ELSE 0,
         latest_update |-> latest_update,
         source |-> source]

----------------------------------------------------------------------------
(* The datasets the four readers return *)

\* a dict with no key
EmptyData == [code \in {} |-> 0]

\* one row of a source, as the reader hands it to add_country_data
Row(name, c, d, r, ts, src) ==
    [name |-> name, confirmed |-> c, deaths |-> d, recovered |-> r,
     latest_update |-> ts, source |-> src]

\* the loop of a reader: data[obj['code']] = obj for every row add_country_data accepts
\* (rows: a set of rows, no two of the same country)
ReadRows(rows) ==
    LET kept == {row \in rows : Resolves(row.name)}
        obj(row) == add_country_data(row.name, row.confirmed, row.deaths, row.recovered,
                                     row.latest_update, row.source)
    IN  [code \in {CODES[Normalized(row.name)] : row \in kept} |->
            obj(CHOOSE row \in kept : CODES[Normalized(row.name)] = code)]

\* the timestamps of the sources: strftime("%Y/%m/%d, %H:%M:%S") for read_arcgis and
\* read_worldometer, the CSV's Last_Update column for read_covid_csse (ISO, with a 'T',
\* or already with a space), free text for read_manual_data
ArcgisTime == <<"1", " ", "9">>
CsseTimes == {<<"1", "T", "8">>, <<"1", " ", "8">>}
WomTime == <<"2", " ", "7">>
ManualTime == <<"2", "T", "6">>

\* the rows of the countries every source reports alike
StableRows(ts, src) ==
    {Row(StableName(i), IntVal(1), IntVal(0), IntVal(0), ts, src) : i \in 1..NumStable}

\* what each reader builds from those rows
ArcgisStable == ReadRows(StableRows(ArcgisTime, Label("JHU CSSE")))
CsseStable == [ts \in CsseTimes |-> ReadRows(StableRows(ts, Label("JHU CSSE")))]
WomStable == ReadRows(StableRows(WomTime, Label("Worldometer")))

\* the counts a source may report for the varying country
Counts == 0..MaxCount

\* the rows read_arcgis and read_covid_csse may find for the varying country: none,
\* one under a known spelling, or one under a label the reference table does not know
FocusRows(code, ts, src) ==
    {{}}
    \cup {{Row(n, IntVal(c), IntVal(d), IntVal(r), ts, src)} :
            n \in RawNames(code), c \in Counts, d \in Counts, r \in Counts}
    \cup {{Row(n, IntVal(1), IntVal(0), IntVal(0), ts, src)} : n \in UnknownNames}

\* the rows read_worldometer and read_manual_data may find for it: as above, for a
\* country that reports no recovery yet
EarlyRows(code, ts, src) ==
    {{}}
    \cup {{Row(n, IntVal(c), IntVal(d), IntVal(0), ts, src)} :
            n \in RawNames(code), c \in Counts, d \in Counts}
    \cup {{Row(n, IntVal(1), IntVal(0), IntVal(0), ts, src)} : n \in UnknownNames}

\* a reader's result: the varying country's record, if its row is accepted, beside the
\* records of the other countries
Dataset(rows, stable) == ReadRows(rows) @@ stable

----------------------------------------------------------------------------
(* combine_data *)

\* str.replace('T', ' ')
ReplaceT(ts) == [i \in DOMAIN ts |-> IF ts[i] = "T" THEN " " ELSE ts[i]]

\* RepairRecord with the attribution taken from csse whether or not a count was raised
RepairRecordAlwaysAttributes(old, new) ==
    [old EXCEPT
        !.confirmed = IF old.confirmed < new.confirmed THEN new.confirmed ELSE @,
        !.deaths = IF old.deaths < new.deaths THEN new.deaths ELSE @,
        !.recovered = IF old.recovered < new.recovered THEN new.recovered ELSE @,
        !.latest_update = ReplaceT(new.latest_update),
        !.source = Label("JHU CSSE")]

\* RepairRecord with the plausible slip of copying csse's three counts together
RepairRecordOverwrite(old, new) ==
    IF old.confirmed < new.confirmed \/ old.deaths < new.deaths \/ old.recovered < new.recovered
    THEN [old EXCEPT
            !.confirmed = new.confirmed,
            !.deaths = new.deaths,
            !.recovered = new.recovered,
            !.latest_update = ReplaceT(new.latest_update),
            !.source = Label("JHU CSSE")]
    ELSE old

\* a code of csse already in covid_data: each count is raised to csse's when csse's is
\* larger, and then the attribution becomes csse's
RepairRecord(old, new) ==
    IF old.confirmed < new.confirmed \/ old.deaths < new.deaths \/ old.recovered < new.recovered
    THEN [old EXCEPT
            !.confirmed = IF old.confirmed < new.confirmed THEN new.confirmed ELSE @,
            !.deaths = IF old.deaths < new.deaths THEN new.deaths ELSE @,
            !.recovered = IF old.recovered < new.recovered THEN new.recovered ELSE @,
            !.latest_update = ReplaceT(new.latest_update),
            !.source = Label("JHU CSSE")]
    ELSE old

\* a code of csse not in covid_data: the csse record itself is stored and then edited
InsertedRecord(new) ==
    [new EXCEPT !.latest_update = ReplaceT(@), !.source = Label("JHU CSSE")]

\* the loop over csse
SecondaryStep(data, cs) ==
    [code \in DOMAIN data \cup DOMAIN cs |->
        IF code \in DOMAIN cs
        THEN IF code \in DOMAIN data
             THEN RepairRecord(data[code], cs[code])
             ELSE InsertedRecord(cs[code])
        ELSE data[code]]

\* csse after the loop: the records stored in covid_data are the same objects as
\* csse's, so the edits made to them show in csse too
CsseAfter(data, cs) ==
    [code \in DOMAIN cs |->
        IF code \in DOMAIN data THEN cs[code] ELSE InsertedRecord(cs[code])]

\* the codes whose Worldometer record replaces the one already merged
WomOverride == {"SRB", "KGZ", "KAZ", "RUS", "UKR", "MZX", "UZB"}

\* WomAdmitted with the override applied to every country
WomAdmittedAlways(code, data) == code \in DOMAIN COUNTRIES

\* a Worldometer record is stored
WomAdmitted(code, data) ==
    /\ code \notin DOMAIN data \/ code \in WomOverride
    /\ code \in DOMAIN COUNTRIES

\* the loop over wom_data (entered when wom_data is not empty)
TertiaryStep(data, wom) ==
    [code \in DOMAIN data \cup {c \in DOMAIN wom : WomAdmitted(c, data)} |->
        IF code \in DOMAIN wom /\ WomAdmitted(code, data) THEN wom[code] ELSE data[code]]

\* ManualStep that only fills the gaps the other sources left
ManualStepFillOnly(data, man) ==
    [code \in DOMAIN data \cup DOMAIN man |->
        IF code \in DOMAIN data THEN data[code] ELSE man[code]]

\* the loop over man_data (entered when man_data is not empty)
ManualStep(data, man) ==
    [code \in DOMAIN data \cup DOMAIN man |->
        IF code \in DOMAIN man THEN man[code] ELSE data[code]]

----------------------------------------------------------------------------
(* read_population_data *)

\* round(num / den, 2) in hundredths and round(num / den) in units, for den > 0 and
\* num of either sign: to the nearest, a tie to the even neighbour.  (Python rounds the float
\* nearest to num / den; for a quotient that is a decimal tie but no binary fraction
\* the float lies off the tie and decides the direction.  The populations and counts
\* of this model produce no such quotient.)
RoundHalfEven(num, den) ==
    LET q == num \div den
        rem == num % den
    IN  IF 2 * rem < den THEN q
        ELSE IF 2 * rem > den THEN q + 1
        ELSE IF q % 2 = 0 THEN q ELSE q + 1
Round2(num, den) == RoundHalfEven(100 * num, den)
Round0(num, den) == RoundHalfEven(num, den)

\* one if/elif chain of read_population_data: density in hundredths, breakpoints in
\* units, the bucket in tenths; no branch is taken for a negative density
BucketSet(density) == density >= 0
Bucket(density, b1, b2, b3, b4) ==
    IF density = 0 THEN 0
    ELSE IF density > 0 /\ density < 100 * b1 THEN 2
    ELSE IF density >= 100 * b1 /\ density < 100 * b2 THEN 4
    ELSE IF density >= 100 * b2 /\ density < 100 * b3 THEN 6
    ELSE IF density >= 100 * b3 /\ density < 100 * b4 THEN 8
    ELSE 10

\* ConfirmedDensity with the factor a density per 100,000 inhabitants would take
ConfirmedDensityPer100000(rec, population) == Round2(rec.confirmed * 100000, population)

\* confirmed * 100 / population, rounded to two decimals (hundredths)
ConfirmedDensity(rec, population) == Round2(rec.confirmed * 100, population)

DeathsDensity(rec) ==
    IF rec.confirmed > 0 THEN Round2(rec.deaths * 1000, rec.confirmed) ELSE 0

\* rounded to an integer, kept here in hundredths like the others
RecoveredDensity(rec) ==
    IF rec.confirmed > 0 THEN 100 * Round0(rec.recovered * 1000, rec.confirmed) ELSE 0

ActiveDensity(rec, population) ==
    IF rec.active > 0 THEN Round2(rec.active * 100, population) ELSE 0

\* the keys one row of the population table adds to the record of its country
EnrichRecord(rec, population) ==
    LET cd == ConfirmedDensity(rec, population)
        dd == DeathsDensity(rec)
        rd == RecoveredDensity(rec)
        ad == ActiveDensity(rec, population)
        base == [population |-> population, cd |-> cd, rd |-> rd, dd |-> dd, ad |-> ad]
        co == IF BucketSet(cd) THEN [co |-> Bucket(cd, 10, 100, 200, 300)] ELSE <<>>
        ro == IF BucketSet(rd) THEN [ro |-> Bucket(rd, 10, 100, 200, 300)] ELSE <<>>
        do == IF BucketSet(dd) THEN [do |-> Bucket(dd, 5, 10, 50, 100)] ELSE <<>>
        ao == IF BucketSet(ad) THEN [ao |-> Bucket(ad, 10, 100, 200, 300)] ELSE <<>>
    IN  co @@ ro @@ do @@ ao @@ base @@ rec

\* the loop over the rows of the population table (pop: code -> raw population)
read_population_data(data, pop) ==
    [code \in DOMAIN data |->
        IF code \in DOMAIN pop /\ parse_num(pop[code]) > 0
        THEN EnrichRecord(data[code], parse_num(pop[code]))
        ELSE data[code]]

----------------------------------------------------------------------------
(* validate_json *)

\* the codes allowed to report no case at all
ZeroBurden == {"TKM", "PRK"}

\* RecordRejected without the control sum
RecordRejectedNoSum(code, data) ==
    /\ ~(data.confirmed > 0 \/ data.deaths > 0 \/ data.recovered > 0)
    /\ code \notin ZeroBurden

\* RecordRejected with a control sum that leaves the recovered out
RecordRejectedDeathsOnly(code, data) ==
    /\ \/ ~(data.confirmed > 0 \/ data.deaths > 0 \/ data.recovered > 0)
       \/ ~(data.confirmed >= data.deaths)
    /\ code \notin ZeroBurden

\* the record makes validate_json raise ValueError
RecordRejected(code, data) ==
    /\ \/ ~(data.confirmed > 0 \/ data.deaths > 0 \/ data.recovered > 0)
       \/ ~(data.confirmed >= data.deaths + data.recovered)
    /\ code \notin ZeroBurden

\* "True", "False", or "ValueError" when it raises
validate_json(data) ==
    IF Cardinality(DOMAIN COUNTRIES) >= Cardinality(DOMAIN data)
       /\ Cardinality(DOMAIN data) > MinRecords
    THEN IF \E code \in DOMAIN data : RecordRejected(code, data[code])
         THEN "ValueError"
         ELSE "True"
    ELSE "False"

----------------------------------------------------------------------------
(* save_to_redis *)

\* the languages, in the order of the loops
Languages == <<"ru", "en">>

\* how a call may end: slave.set returns a true status, returns a false one, or raises;
\* the connection (Sentinel, discover_master, master_for, slave_for) is made or raises;
\* a file is written or raises; "skipped" marks a call the run does not reach
SetOutcomes == {"ok", "falsy", "raise"}
ConnectOutcomes == {"ok", "raise"}
FileOutcomes == {"ok", "raise"}

\* the keys the loop over the languages has set when it ends: it ends at the first
\* call that raises or returns a false status
StoreWrites(connect, set_ru, set_en) ==
    IF connect = "ok" /\ set_ru = "ok"
    THEN IF set_en = "ok" THEN {"ru", "en"} ELSE {"ru"}
    ELSE {}

\* the outer try block raised, so the except block runs
StoreRaised(connect, set_ru, set_en) ==
    \/ connect = "raise"
    \/ connect = "ok" /\ set_ru = "raise"
    \/ connect = "ok" /\ set_ru = "ok" /\ set_en = "raise"

\* the files the except block writes: its own try ends at the first write that raises
FallbackFiles(raised, file_ru, file_en) ==
    IF raised /\ file_ru = "ok"
    THEN IF file_en = "ok" THEN {"ru", "en"} ELSE {"ru"}
    ELSE {}

\* the value save_to_redis returns: the status of the last set, False from the except block
SaveStatus(connect, set_ru, set_en) ==
    connect = "ok" /\ set_ru = "ok" /\ set_en = "ok"

\* the ways one call of save_to_redis may go
SavePaths ==
    {o \in [connect : ConnectOutcomes,
            set_ru : SetOutcomes \cup {"skipped"},
            set_en : SetOutcomes \cup {"skipped"},
            file_ru : FileOutcomes \cup {"skipped"},
            file_en : FileOutcomes \cup {"skipped"}] :
        /\ (o.set_ru = "skipped") <=> (o.connect # "ok")
        /\ (o.set_en = "skipped") <=> (o.set_ru # "ok")
        /\ (o.file_ru = "skipped") <=> ~StoreRaised(o.connect, o.set_ru, o.set_en)
        /\ (o.file_en = "skipped") <=> (o.file_ru # "ok")}

----------------------------------------------------------------------------
(* execute *)

\* ArcgisFatal with the exception logged and not re-raised
ArcgisFatalNever(result) == FALSE

\* ValidationPasses with only the False result stopping the run
ValidationPassesUnlessFalse(result) == result # "False"

\* read_arcgis ended in a way that ends the run: execute re-raises what it raised
ArcgisFatal(result) == result = "raised"

\* validate_json's result lets execute go on to save_to_redis
ValidationPasses(result) == result = "True"

NoPath == [connect |-> "skipped", set_ru |-> "skipped", set_en |-> "skipped",
           file_ru |-> "skipped", file_en |-> "skipped"]
NoRaw == [name |-> ""]
NoBuilt == [outcome |-> "none"]

Init ==
    /\ pc = "start"
    /\ country \in FocusCodes
    /\ calls = {}
    /\ covid_data = EmptyData
    /\ prev = EmptyData
    /\ csse = EmptyData
    /\ wom_data = EmptyData
    /\ man_data = EmptyData
    /\ arcgis_result = "none"
    /\ valid = "none"
    /\ redis_status = FALSE
    /\ redis = [language \in {"ru", "en"} |-> "previous"]
    /\ files = {}
    /\ save_path = NoPath
    /\ raw = NoRaw
    /\ built = NoBuilt

\* read_country_list and read_geojson return
ReadReference ==
    /\ pc = "start"
    /\ pc' = "arcgis"
    /\ calls' = calls \cup {"read_country_list", "read_geojson"}
    /\ UNCHANGED <<country, covid_data, prev, csse, wom_data, man_data, arcgis_result,
                   valid, redis_status, redis, files, save_path, raw, built>>

\* one of them raises (the request, the CSV, the file): the outer except ends the run
ReadReferenceRaises ==
    /\ pc = "start"
    /\ pc' = "done"
    /\ calls' = calls \cup {"read_country_list"}
    /\ UNCHANGED <<country, covid_data, prev, csse, wom_data, man_data, arcgis_result,
                   valid, redis_status, redis, files, save_path, raw, built>>

\* self.covid_data = self.read_arcgis()
ReadArcgis ==
    /\ pc = "arcgis"
    /\ calls' = calls \cup {"read_arcgis"}
    /\ \E result \in {"ok", "non_ok", "no_features", "raised"} :
        /\ arcgis_result' = result
        /\ pc' = IF ArcgisFatal(result) THEN "done" ELSE "combine"
        /\ IF result = "ok"
           THEN \E rows \in FocusRows(country, ArcgisTime, Label("JHU CSSE")) :
                    covid_data' = Dataset(rows, ArcgisStable)
           ELSE covid_data' = EmptyData
    /\ UNCHANGED <<country, prev, csse, wom_data, man_data, valid, redis_status, redis,
                   files, save_path, raw, built>>

\* combine_data: one of its three readers raises before the first loop
CombineRaises ==
    /\ pc = "combine"
    /\ pc' = "done"
    /\ calls' = calls \cup {"combine_data"}
    /\ UNCHANGED <<country, covid_data, prev, csse, wom_data, man_data, arcgis_result,
                   valid, redis_status, redis, files, save_path, raw, built>>

\* combine_data, the loop over csse.  The three readers run before the loops and do not
\* read covid_data; each dataset enters the model at the loop that consumes it.
CombineSecondary ==
    /\ pc = "combine"
    /\ pc' = "tertiary"
    /\ calls' = calls \cup {"combine_data"}
    /\ \E read \in {EmptyData} \cup
                     UNION {{Dataset(rows, CsseStable[ts]) :
                                rows \in FocusRows(country, ts, Label("JHU CSSE"))} :
                            ts \in CsseTimes} :
        /\ covid_data' = SecondaryStep(covid_data, read)
        /\ csse' = CsseAfter(covid_data, read)
    /\ prev' = covid_data
    /\ UNCHANGED <<country, wom_data, man_data, arcgis_result, valid, redis_status, redis,
                   files, save_path, raw, built>>

\* combine_data, the loop over wom_data
CombineTertiary ==
    /\ pc = "tertiary"
    /\ pc' = "manual"
    /\ \E read \in {EmptyData} \cup
                     {Dataset(rows, WomStable) :
                        rows \in EarlyRows(country, WomTime, Label("Worldometer"))} :
        /\ covid_data' = TertiaryStep(covid_data, read)
        /\ wom_data' = read
    /\ prev' = covid_data
    /\ csse' = EmptyData
    /\ UNCHANGED <<country, calls, man_data, arcgis_result, valid, redis_status, redis,
                   files, save_path, raw, built>>

\* combine_data, the loop over man_data, and its return
CombineManual ==
    /\ pc = "manual"
    /\ pc' = "population"
    /\ \E read \in {ReadRows(rows) :
                        rows \in EarlyRows(country, ManualTime, Localized("istochnik", "source"))} :
        /\ covid_data' = ManualStep(covid_data, read)
        /\ man_data' = read
    /\ prev' = covid_data
    /\ wom_data' = EmptyData
    /\ UNCHANGED <<country, calls, csse, arcgis_result, valid, redis_status, redis,
                   files, save_path, raw, built>>

\* the populations the table may give the varying country ('' and 'n/a' parse to 0)
Populations == {0, 1000, 1000000}
StablePopulations == [code \in StableCodes(NumStable) |-> IntVal(1000)]

\* self.read_population_data(): the table lists the varying country or not, and the
\* other countries or not (an exception inside the loop ends it early and is swallowed)
ReadPopulationData ==
    /\ pc = "population"
    /\ pc' = "validate"
    /\ calls' = calls \cup {"read_population_data"}
    /\ \E pop \in {focus @@ stable :
                        focus \in {EmptyData} \cup {[code \in {country} |-> IntVal(p)] : p \in Populations},
                        stable \in {EmptyData, StablePopulations}} :
        covid_data' = read_population_data(covid_data, pop)
    /\ prev' = EmptyData
    /\ man_data' = EmptyData
    /\ UNCHANGED <<country, csse, wom_data, arcgis_result, valid, redis_status, redis,
                   files, save_path, raw, built>>

\* the request for the population table raises
ReadPopulationRaises ==
    /\ pc = "population"
    /\ pc' = "done"
    /\ calls' = calls \cup {"read_population_data"}
    /\ prev' = EmptyData
    /\ man_data' = EmptyData
    /\ UNCHANGED <<country, covid_data, csse, wom_data, arcgis_result, valid,
                   redis_status, redis, files, save_path, raw, built>>

\* if not self.validate_json(): raise
ValidateJson ==
    /\ pc = "validate"
    /\ calls' = calls \cup {"validate_json"}
    /\ valid' = validate_json(covid_data)
    /\ pc' = IF ValidationPasses(validate_json(covid_data)) THEN "save" ELSE "done"
    /\ UNCHANGED <<country, covid_data, prev, csse, wom_data, man_data, arcgis_result,
                   redis_status, redis, files, save_path, raw, built>>

\* redis_status = self.save_to_redis(), and execute returns
SaveToRedis ==
    /\ pc = "save"
    /\ pc' = "done"
    /\ calls' = calls \cup {"save_to_redis"}
    /\ \E o \in SavePaths :
        /\ redis' = [language \in {"ru", "en"} |->
                        IF language \in StoreWrites(o.connect, o.set_ru, o.set_en)
                        THEN "current" ELSE redis[language]]
        /\ files' = FallbackFiles(StoreRaised(o.connect, o.set_ru, o.set_en), o.file_ru, o.file_en)
        /\ redis_status' = SaveStatus(o.connect, o.set_ru, o.set_en)
        /\ save_path' = o
    /\ UNCHANGED <<country, covid_data, prev, csse, wom_data, man_data, arcgis_result,
                   valid, raw, built>>

Next ==
    \/ ReadReference
    \/ ReadReferenceRaises
    \/ ReadArcgis
    \/ CombineRaises
    \/ CombineSecondary
    \/ CombineTertiary
    \/ CombineManual
    \/ ReadPopulationData
    \/ ReadPopulationRaises
    \/ ValidateJson
    \/ SaveToRedis

Spec == Init /\ [][Next]_vars

----------------------------------------------------------------------------
(* A single call of add_country_data, on raw arguments of every type *)

\* the characters of the raw strings
Alphabet == {"1", "0", ",", " ", "a", "-"}

RECURSIVE StringsUpTo(_)
StringsUpTo(n) ==
    IF n = 0 THEN {<<>>}
    ELSE LET shorter == StringsUpTo(n - 1)
         IN  shorter \cup {Append(s, ch) : s \in {t \in shorter : Len(t) = n - 1}, ch \in Alphabet}

\* what a reader may hand over as a count: an int, a str, None (a JSON null), a float
RawValues ==
    {IntVal(n) : n \in Counts}
    \cup {StrVal(s) : s \in StringsUpTo(MaxLen)}
    \cup {NoneVal, [t |-> "float"]}

RawCounts == {IntVal(n) : n \in Counts} \cup {StrVal(<<>>), NoneVal}

InitBuild ==
    /\ pc = "build"
    /\ country = "ITA"
    /\ calls = {}
    /\ covid_data = EmptyData
    /\ prev = EmptyData
    /\ csse = EmptyData
    /\ wom_data = EmptyData
    /\ man_data = EmptyData
    /\ arcgis_result = "none"
    /\ valid = "none"
    /\ redis_status = FALSE
    /\ redis = [language \in {"ru", "en"} |-> "previous"]
    /\ files = {}
    /\ save_path = NoPath
    /\ raw \in [name : {"Italy", "Russian Federation", "Diamond Princess", ""},
                confirmed : RawValues, deaths : RawCounts, recovered : RawCounts]
    /\ built = NoBuilt

\* add_country_data(raw.name, raw.confirmed, raw.deaths, raw.recovered, ...): it returns
\* None, raises out of parse_num, or returns the record
AddCountryData ==
    /\ pc = "build"
    /\ pc' = "built"
    /\ built' =
        IF ~Resolves(raw.name)
        THEN [outcome |-> "None"]
        ELSE IF AddCountryRaises(raw.name, raw.confirmed, raw.deaths, raw.recovered)
        THEN [outcome |-> "AttributeError"]
        ELSE [outcome |-> "record",
              rec |-> add_country_data(raw.name, raw.confirmed, raw.deaths, raw.recovered,
                                       ArcgisTime, Label("JHU CSSE"))]
    /\ UNCHANGED <<country, calls, covid_data, prev, csse, wom_data, man_data,
                   arcgis_result, valid, redis_status, redis, files, save_path, raw>>

NextBuild == AddCountryData

SpecBuild == InitBuild /\ [][NextBuild]_vars

----------------------------------------------------------------------------
(* combine_data and read_population_data on datasets of one country *)

\* the counts of the country in the seed and in csse
SeedCounts == {<<10, 1, 5>>, <<12, 1, 5>>}
CsseCounts == {<<c, d, r>> : c \in 9..13, d \in 0..2, r \in 4..6}

OneCountry(name, counts, ts, src) ==
    ReadRows({Row(name, IntVal(counts[1]), IntVal(counts[2]), IntVal(counts[3]), ts, src)})

InitEndToEnd ==
    /\ pc = "merge"
    /\ country = "ITA"
    /\ calls = {}
    /\ covid_data \in {OneCountry("Italy", m, ArcgisTime, Label("JHU CSSE")) : m \in SeedCounts}
    /\ prev = covid_data
    /\ csse \in {OneCountry("Italy", m, <<"1", "T", "8">>, Label("JHU CSSE")) : m \in CsseCounts}
    /\ wom_data \in {EmptyData, OneCountry("Italy", <<20, 2, 0>>, WomTime, Label("Worldometer"))}
    /\ man_data \in {EmptyData,
                     OneCountry("Italy", <<30, 3, 0>>, ManualTime, Localized("istochnik", "source"))}
    /\ arcgis_result = "ok"
    /\ valid = "none"
    /\ redis_status = FALSE
    /\ redis = [language \in {"ru", "en"} |-> "previous"]
    /\ files = {}
    /\ save_path = NoPath
    /\ raw = NoRaw
    /\ built = NoBuilt

\* combine_data on the three datasets read: its loops, one after the other
CombineData ==
    /\ pc = "merge"
    /\ pc' = "enrich"
    /\ calls' = calls \cup {"combine_data"}
    /\ covid_data' = ManualStep(TertiaryStep(SecondaryStep(covid_data, csse), wom_data), man_data)
    /\ UNCHANGED <<country, prev, csse, wom_data, man_data, arcgis_result, valid,
                   redis_status, redis, files, save_path, raw, built>>

\* read_population_data on a table that lists the country
PopulationData ==
    /\ pc = "enrich"
    /\ pc' = "enriched"
    /\ calls' = calls \cup {"read_population_data"}
    /\ \E p \in {1000, 60461, 1000000} :
        covid_data' = read_population_data(covid_data, [code \in {country} |-> IntVal(p)])
    /\ UNCHANGED <<country, prev, csse, wom_data, man_data, arcgis_result, valid,
                   redis_status, redis, files, save_path, raw, built>>

NextEndToEnd == CombineData \/ PopulationData

SpecEndToEnd == InitEndToEnd /\ [][NextEndToEnd]_vars

----------------------------------------------------------------------------
(* read_population_data on one record, with densities at and around every breakpoint *)

\* the counts of the record: a reader passes on whatever int the source holds, a
\* negative one included (int() and parse_num accept a leading '-')
EnrichConfirmed == {0, 5, 10, 100, 200, 300, 999, 1000}
EnrichDeaths == {-1, 0, 1, 5, 10, 50, 100}
EnrichRecovered == {-1, 0, 1, 2, 10, 100, 300}

\* the populations of the table: with 100 the confirmed density is the confirmed count
EnrichPopulations == {100, 10000}

InitEnrich ==
    /\ pc = "enrich"
    /\ country = "ITA"
    /\ calls = {"combine_data"}
    /\ covid_data \in {OneCountry("Italy", <<c, d, r>>, ArcgisTime, Label("JHU CSSE")) :
                          c \in EnrichConfirmed, d \in EnrichDeaths, r \in EnrichRecovered}
    /\ prev = covid_data
    /\ csse = EmptyData
    /\ wom_data = EmptyData
    /\ man_data = EmptyData
    /\ arcgis_result = "ok"
    /\ valid = "none"
    /\ redis_status = FALSE
    /\ redis = [language \in {"ru", "en"} |-> "previous"]
    /\ files = {}
    /\ save_path = NoPath
    /\ raw = NoRaw
    /\ built = NoBuilt

\* read_population_data on a table whose row for the country has a positive population
EnrichOne ==
    /\ pc = "enrich"
    /\ pc' = "enriched"
    /\ calls' = calls \cup {"read_population_data"}
    /\ \E p \in EnrichPopulations :
        covid_data' = read_population_data(covid_data, [code \in {country} |-> IntVal(p)])
    /\ UNCHANGED <<country, prev, csse, wom_data, man_data, arcgis_result, valid,
                   redis_status, redis, files, save_path, raw, built>>

NextEnrich == EnrichOne

SpecEnrich == InitEnrich /\ [][NextEnrich]_vars

----------------------------------------------------------------------------
(* The claims about the merge *)

Max(a, b) == IF a > b THEN a ELSE b

\* C1: after the loop over csse, for every code in both the seed and csse, each of
\* confirmed, deaths and recovered is the larger of the seed's and csse's value, field
\* by field, and none is below the seed's value
C1_MonotonicRepair ==
    pc = "tertiary" =>
        \A code \in DOMAIN prev \cap DOMAIN csse :
            /\ covid_data[code].confirmed = Max(prev[code].confirmed, csse[code].confirmed)
            /\ covid_data[code].deaths = Max(prev[code].deaths, csse[code].deaths)
            /\ covid_data[code].recovered = Max(prev[code].recovered, csse[code].recovered)
            /\ covid_data[code].confirmed >= prev[code].confirmed
            /\ covid_data[code].deaths >= prev[code].deaths
            /\ covid_data[code].recovered >= prev[code].recovered

\* a code whose confirmed was raised to csse's while its deaths stayed at the seed's
\* larger value
C1_Witness ==
    /\ pc = "tertiary"
    /\ \E code \in DOMAIN prev \cap DOMAIN csse :
        /\ prev[code].confirmed < csse[code].confirmed
        /\ prev[code].deaths > csse[code].deaths
        /\ covid_data[code].confirmed = csse[code].confirmed
        /\ covid_data[code].deaths = prev[code].deaths

\* C2: when combine_data returns, every code of man_data holds exactly the manual
\* record, whatever the other sources gave for it
C2_ManualWins ==
    pc = "population" =>
        \A code \in DOMAIN man_data :
            code \in DOMAIN covid_data /\ covid_data[code] = man_data[code]

\* a code of the override list, held with Worldometer's larger count before the loop
\* over man_data, now holds the manual record
C2_Witness ==
    /\ pc = "population"
    /\ \E code \in DOMAIN man_data \cap DOMAIN prev :
        /\ code \in WomOverride
        /\ prev[code].source = Label("Worldometer")
        /\ prev[code].confirmed > man_data[code].confirmed
        /\ covid_data[code] = man_data[code]

\* C3: after the loop over wom_data, a code of wom_data holds the Worldometer record
\* exactly when it is in COUNTRIES and was either absent before the loop or is in the
\* override list; every other code of wom_data is as it was before the loop, and a code
\* absent before the loop that is not admitted stays absent
C3_TertiaryAdmission ==
    pc = "manual" =>
        \A code \in DOMAIN wom_data :
            LET admitted == /\ code \in DOMAIN COUNTRIES
                            /\ code \notin DOMAIN prev \/ code \in WomOverride
                holdsWom == code \in DOMAIN covid_data /\ covid_data[code] = wom_data[code]
            IN  /\ holdsWom <=> admitted
                /\ ~admitted =>
                    IF code \in DOMAIN prev
                    THEN code \in DOMAIN covid_data /\ covid_data[code] = prev[code]
                    ELSE code \notin DOMAIN covid_data

\* a code of the override list replaced by Worldometer's record, and another code,
\* present before the loop and not in the list, left as it was
C3_Witness ==
    /\ pc = "manual"
    /\ \E code \in DOMAIN wom_data \cap DOMAIN prev :
        code \in WomOverride /\ prev[code] # wom_data[code] /\ covid_data[code] = wom_data[code]
    /\ \E code \in DOMAIN wom_data \cap DOMAIN prev :
        code \notin WomOverride /\ prev[code] # wom_data[code] /\ covid_data[code] = prev[code]

----------------------------------------------------------------------------
(* The claims about validation and publication *)

\* the condition under which the validator is said to accept
Acceptable(data) ==
    /\ MinRecords < Cardinality(DOMAIN data)
    /\ Cardinality(DOMAIN data) <= Cardinality(DOMAIN COUNTRIES)
    /\ \A code \in DOMAIN data \ ZeroBurden :
        /\ data[code].confirmed > 0 \/ data[code].deaths > 0 \/ data[code].recovered > 0
        /\ data[code].confirmed >= data[code].deaths + data[code].recovered

C5_ValidationGatesPublish ==
    /\ "save_to_redis" \in calls => valid = "True"
    /\ valid \in {"False", "ValueError"} =>
        /\ pc = "done"
        /\ \A language \in {"ru", "en"} : redis[language] = "previous"
        /\ files = {}
        /\ redis_status = FALSE

\* a run ended by validate_json raising
C5_Witness ==
    /\ valid = "ValueError"
    /\ pc = "done"
    /\ "save_to_redis" \notin calls

\* C6 (as claimed): when a run ends, the store holds this run's data for both
\* languages or for neither
C6_AllOrNothing ==
    pc = "done" => (redis["ru"] = "current" <=> redis["en"] = "current")

\* C7 (as claimed): when save_to_redis has not written both languages to the store
\* (and no file write failed), both fallback files are written and execute returns False
C7_FallbackOnFailure ==
    (/\ pc = "done"
     /\ "save_to_redis" \in calls
     /\ save_path.file_ru # "raise" /\ save_path.file_en # "raise"
     /\ \E language \in {"ru", "en"} : redis[language] # "current")
    => files = {"ru", "en"} /\ redis_status = FALSE

\* C8 (as claimed): when the ArcGIS fetch yields no records (a non-OK response, a
\* payload without features, or an exception) the merge is never run and nothing is
\* published
C8_PrimaryFailureFatal ==
    arcgis_result \in {"non_ok", "no_features", "raised"} =>
        /\ "combine_data" \notin calls
        /\ "save_to_redis" \notin calls

\* C8 (amended): when read_arcgis raises, the run ends at once: no merge, no
\* validation, no publication, and execute returns False; a non-OK response or a
\* payload without features leaves an empty seed and the run goes on to the merge
C8_PrimaryExceptionFatal ==
    /\ arcgis_result = "raised" =>
        /\ pc = "done"
        /\ calls \cap {"combine_data", "read_population_data", "validate_json",
                       "save_to_redis"} = {}
        /\ \A language \in {"ru", "en"} : redis[language] = "previous"
        /\ files = {}
        /\ redis_status = FALSE
    /\ arcgis_result \in {"non_ok", "no_features"} =>
        /\ pc = "combine" => DOMAIN covid_data = {}
        /\ pc = "done" => "combine_data" \in calls

\* a run ended by read_arcgis raising
C8_Witness ==
    /\ arcgis_result = "raised"
    /\ pc = "done"
    /\ "read_arcgis" \in calls

----------------------------------------------------------------------------
(* The claims about the record builder and the end-to-end example *)

\* C9 (as claimed): for every raw value of confirmed, deaths and recovered, parse_num
\* returns an integer (0 for None and the other non-strings), so add_country_data
\* never raises on a title it knows; "1,234" gives 1234, "" and "abc" give 0, 7 gives 7
C9_BuilderNeverRaises ==
    /\ pc = "built" /\ Resolves(raw.name) =>
        /\ built.outcome = "record"
        /\ raw.confirmed.t = "int" => built.rec.confirmed = raw.confirmed.n
        /\ raw.confirmed.t \notin {"int", "str"} => built.rec.confirmed = 0
    /\ parse_num(StrVal(<<"1", ",", "2", "3", "4">>)) = 1234
    /\ parse_num(StrVal(<<>>)) = 0
    /\ parse_num(StrVal(<<"a", "b", "c">>)) = 0
    /\ parse_num(IntVal(7)) = 7

\* the example's inputs: the seed holds A with 10 confirmed, 1 death, 5 recovered, csse
\* holds A with 12 confirmed and no larger deaths or recovered, nothing from
\* Worldometer or the manual sheet, and the table gives A the population p
EndToEndExample(p) ==
    /\ pc = "enriched"
    /\ prev[country].confirmed = 10 /\ prev[country].deaths = 1 /\ prev[country].recovered = 5
    /\ csse[country].confirmed = 12
    /\ csse[country].deaths <= 1 /\ csse[country].recovered <= 5
    /\ DOMAIN wom_data = {} /\ DOMAIN man_data = {}
    /\ covid_data[country].population = p

----------------------------------------------------------------------------
(* The claims about the severity buckets and the active count *)

\* the six-level step function of a density d (in hundredths) with the breakpoints
\* b1 < b2 < b3 < b4 (in units), the level in tenths
StepLevel(d, b1, b2, b3, b4) ==
    CASE d = 0 -> 0
      [] 0 < d /\ d < 100 * b1 -> 2
      [] 100 * b1 <= d /\ d < 100 * b2 -> 4
      [] 100 * b2 <= d /\ d < 100 * b3 -> 6
      [] 100 * b3 <= d /\ d < 100 * b4 -> 8
      [] d >= 100 * b4 -> 10
      [] OTHER -> -1

\* C11 (as claimed): every enriched record has all four buckets, each the level the
\* step function gives its density: breakpoints 10, 100, 200, 300 for confirmed,
\* recovered and active, 5, 10, 50, 100 for deaths; 10 -> 0.4, 9.99 -> 0.2, 300 -> 1.0,
\* 0 -> 0
C11_StepFunction ==
    /\ pc = "enriched" =>
        LET rec == covid_data[country]
        IN  /\ {"co", "ro", "do", "ao"} \subseteq DOMAIN rec
            /\ rec.co = StepLevel(rec.cd, 10, 100, 200, 300)
            /\ rec.ro = StepLevel(rec.rd, 10, 100, 200, 300)
            /\ rec.do = StepLevel(rec.dd, 5, 10, 50, 100)
            /\ rec.ao = StepLevel(rec.ad, 10, 100, 200, 300)
            /\ {rec.co, rec.ro, rec.do, rec.ao} \subseteq {0, 2, 4, 6, 8, 10}
    /\ Bucket(1000, 10, 100, 200, 300) = 4
    /\ Bucket(999, 10, 100, 200, 300) = 2
    /\ Bucket(30000, 10, 100, 200, 300) = 10
    /\ Bucket(0, 10, 100, 200, 300) = 0

\* what the code does: a density that is not negative gets the level of the step
\* function, a negative density gets no bucket at all
C11_StepFunctionNonNegative ==
    pc = "enriched" =>
        LET rec == covid_data[country]
            agrees(density, bucket, b1, b2, b3, b4) ==
                IF rec[density] >= 0
                THEN bucket \in DOMAIN rec
                     /\ rec[bucket] = StepLevel(rec[density], b1, b2, b3, b4)
                ELSE bucket \notin DOMAIN rec
        IN  /\ agrees("cd", "co", 10, 100, 200, 300)
            /\ agrees("rd", "ro", 10, 100, 200, 300)
            /\ agrees("dd", "do", 5, 10, 50, 100)
            /\ agrees("ad", "ao", 10, 100, 200, 300)

\* C12: active is never negative: in the record add_country_data builds from any
\* confirmed, deaths and recovered (confirmed < deaths + recovered included), and in
\* every record of the merged dataset and of the datasets read, after every step of the
\* merge, the enrichment and the validation
C12_ActiveNonNegative ==
    /\ built.outcome = "record" => built.rec.active >= 0
    /\ \A data \in {covid_data, prev, csse, wom_data, man_data} :
        \A code \in DOMAIN data : data[code].active >= 0

\* a record whose confirmed is below deaths + recovered has gone through the merge, the
\* enrichment and the validation with an active of 0
C12_Witness ==
    /\ valid # "none"
    /\ {"combine_data", "read_population_data"} \subseteq calls
    /\ \E code \in DOMAIN covid_data :
        /\ covid_data[code].confirmed < covid_data[code].deaths + covid_data[code].recovered
        /\ covid_data[code].active = 0

----------------------------------------------------------------------------
(* The claims about the attribution and the consistency of the merged counts *)

\* csse holds a larger confirmed, deaths or recovered than the seed for the code
Raised(code) ==
    \/ prev[code].confirmed < csse[code].confirmed
    \/ prev[code].deaths < csse[code].deaths
    \/ prev[code].recovered < csse[code].recovered

\* C13 (as claimed): for every code in both the seed and csse, after the loop over csse
\* latest_update and source are csse's values if one of the three counts was raised,
\* and the seed's values if none was
C13_AttributionFollowsRepair ==
    pc = "tertiary" =>
        \A code \in DOMAIN prev \cap DOMAIN csse :
            IF Raised(code)
            THEN /\ covid_data[code].latest_update = csse[code].latest_update
                 /\ covid_data[code].source = csse[code].source
            ELSE /\ covid_data[code].latest_update = prev[code].latest_update
                 /\ covid_data[code].source = prev[code].source

\* C13 (amended): if one of the three counts was raised, source is csse's ('JHU CSSE')
\* and latest_update is csse's timestamp with every 'T' turned into a space, which is
\* csse's value only when that holds no 'T'; if none was raised both stay the seed's
C13_AttributionNormalized ==
    pc = "tertiary" =>
        \A code \in DOMAIN prev \cap DOMAIN csse :
            LET stamp == csse[code].latest_update
                stored == covid_data[code].latest_update
            IN  IF Raised(code)
                THEN /\ Len(stored) = Len(stamp)
                     /\ \A i \in 1..Len(stamp) :
                            stored[i] = IF stamp[i] = "T" THEN " " ELSE stamp[i]
                     /\ covid_data[code].source = csse[code].source
                     /\ covid_data[code].source = Label("JHU CSSE")
                ELSE /\ stored = prev[code].latest_update
                     /\ covid_data[code].source = prev[code].source

\* only deaths was raised, from a csse row stamped in the ISO form, and the record now
\* carries that stamp with a space for the 'T'; another code of csse raised nothing and
\* keeps the seed's stamp
C13_Witness ==
    /\ pc = "tertiary"
    /\ \E code \in DOMAIN prev \cap DOMAIN csse :
        /\ prev[code].deaths < csse[code].deaths
        /\ prev[code].confirmed >= csse[code].confirmed
        /\ prev[code].recovered >= csse[code].recovered
        /\ \E i \in 1..Len(csse[code].latest_update) : csse[code].latest_update[i] = "T"
        /\ covid_data[code].latest_update # csse[code].latest_update
        /\ covid_data[code].latest_update # prev[code].latest_update
    /\ \E code \in DOMAIN prev \cap DOMAIN csse :
        /\ ~Raised(code)
        /\ covid_data[code].latest_update = prev[code].latest_update
        /\ prev[code].latest_update # csse[code].latest_update

\* the active count the counts of a record call for
ActiveOf(rec) == Max(rec.confirmed - rec.deaths - rec.recovered, 0)

\* C14 (as claimed): when combine_data returns, every record of the merged dataset has
\* active = max(confirmed - deaths - recovered, 0), the records whose counts the loop
\* over csse raised included
C14_ActiveConsistent ==
    pc = "population" =>
        \A code \in DOMAIN covid_data : covid_data[code].active = ActiveOf(covid_data[code])

\* what holds instead: active is the value add_country_data computed from the counts of
\* the row the record was built from; the loop over csse raises the counts of a record
\* and leaves its active as it was
C14_ActiveOfSeed ==
    pc = "tertiary" =>
        \A code \in DOMAIN prev \cap DOMAIN csse :
            covid_data[code].active = ActiveOf(prev[code])

\* the control sum of a record, or the exemption of its code
ControlSum(code, rec) ==
    rec.confirmed >= rec.deaths + rec.recovered \/ code \in ZeroBurden

\* C15 (as claimed): from the seed to the end of combine_data, every record of the
\* merged dataset has confirmed >= deaths + recovered unless its code is exempt, for
\* sources whose counts are not negative
C15_ControlSum ==
    pc \in {"combine", "tertiary", "manual", "population"} =>
        \A code \in DOMAIN covid_data : ControlSum(code, covid_data[code])

\* C15 (amended): nothing keeps the control sum during the merge; it holds of every
\* record of a dataset validate_json has accepted, and only such a dataset reaches the
\* store or the fallback files
C15_ControlSumWhenAccepted ==
    /\ valid = "True" =>
        \A code \in DOMAIN covid_data : ControlSum(code, covid_data[code])
    /\ (files # {} \/ \E language \in DOMAIN redis : redis[language] # "previous") =>
        /\ valid = "True"
        /\ \A code \in DOMAIN covid_data : ControlSum(code, covid_data[code])

\* a dataset has been accepted in which the only record with confirmed below deaths +
\* recovered is that of an exempt code, after a merge whose loop over csse raised the
\* deaths of that record above its confirmed
C15_Witness ==
    /\ valid = "True"
    /\ "combine_data" \in calls
    /\ \E code \in DOMAIN covid_data :
        /\ code \in ZeroBurden
        /\ covid_data[code].confirmed < covid_data[code].deaths + covid_data[code].recovered
        /\ covid_data[code].source = Label("JHU CSSE")

====
